---------------------------- MODULE Spec2Model ----------------------------
(***************************************************************************)
(* A model of moeviz: the routing-trace server (src/moeviz/server.py) and  *)
(* the adapter library (src/moeviz/model_adapters.py).                     *)
(*                                                                         *)
(* The server has two concurrency domains.  The asyncio event loop runs    *)
(* the relay task process_routing_queue and one generate_text coroutine    *)
(* per request; a coroutine is atomic between two awaits with respect to   *)
(* the other coroutines.  model.generate runs on a thread of thread_pool;  *)
(* it interleaves with the event loop at any point, so two consecutive     *)
(* statements of a coroutine that touch the model's hooks are two steps.   *)
(***************************************************************************)
EXTENDS Integers, Sequences, FiniteSets, TLC

(***************************************************************************)
(* Bounds of the model.                                                    *)
(***************************************************************************)
\* generate requests the model follows
MaxRequests == 2
\* forward steps the model follows, over all generations
MaxSteps == 2
\* token ids are 1..MaxTokenId
MaxTokenId == 2
\* longest input slice of one forward step
MaxBatchLen == 1

(***************************************************************************)
(* Program constants.                                                      *)
(***************************************************************************)
\* config.py: THREAD_POOL_WORKERS defaults to 1
THREAD_POOL_WORKERS == 1
\* server.py: get_experts.hook calls process_router_logits(..., top_k=4)
SERVER_TOP_K == 4
\* server.py: generate_text uses i = 0 as the layer
SERVER_LAYER == 0
\* ModelAdapter.__init__: config.get('top_k', 2)
DEFAULT_TOP_K == 2

Requests == 1 .. MaxRequests
TokenIds == 1 .. MaxTokenId
\* the sentinel of "no request"
NoRequest == 0

\* The input of embed_tokens in one forward step: one batch row of token ids.
Inputs == UNION {[1 .. n -> TokenIds] : n \in 1 .. MaxBatchLen}

\* The keys of MODEL_CONFIGS and one key that is not in it.
ModelIds == {"qwen-1.5-moe-a2.7b", "mixtral-8x7b", "unknown-model"}

(***************************************************************************)
(* Pure helpers.                                                           *)
(***************************************************************************)
RECURSIVE SumSeq(_)
SumSeq(s) == IF s = <<>> THEN 0 ELSE Head(s) + SumSeq(Tail(s))

RECURSIVE Pow2(_)
Pow2(n) == IF n <= 0 THEN 1 ELSE 2 * Pow2(n - 1)

MaxOf(S) == CHOOSE x \in S : \A y \in S : y <= x

\* s followed by n copies of x
RECURSIVE AppendN(_, _, _)
AppendN(s, x, n) == IF n <= 0 THEN s ELSE AppendN(Append(s, x), x, n - 1)

(***************************************************************************)
(* The input-capture probe: get_token.hook (server.py) and                 *)
(* ModelAdapter.get_token_hook.hook (model_adapters.py), the same code.    *)
(* A tensor value is modelled as a record: a 0-d tensor converts to a      *)
(* scalar, a 1-d tensor to a list.                                         *)
(***************************************************************************)
\* input[0] has shape (1, n); squeeze() drops every dimension of size 1
Squeeze(inp) ==
    IF Len(inp) = 1 THEN [isList |-> FALSE, scalar |-> inp[1], list |-> <<>>]
                    ELSE [isList |-> TRUE, scalar |-> 0, list |-> inp]

\* tokens = ....squeeze().tolist(); if not isinstance(tokens, list): tokens = [tokens]
GetTokenHook(inp) ==
    LET tokens == Squeeze(inp)
    IN  IF tokens.isList THEN tokens.list ELSE <<tokens.scalar>>

(***************************************************************************)
(* process_router_logits: softmax over the experts, then torch.topk.       *)
(* Logits are integers; the softmax weight of expert i is computed in      *)
(* fixed point with base 2 instead of e, which keeps the order of the      *)
(* weights and lets weights that differ by less than one unit collide.     *)
(***************************************************************************)
\* number of experts of the router that is hooked
NumExperts == 5
\* fixed-point unit of a softmax weight
WeightUnit == 1024

Softmax(row) ==
    LET hi == MaxOf({row[i] : i \in DOMAIN row})
        e == [i \in DOMAIN row |-> Pow2(10 + row[i] - hi) ]
        total == SumSeq(e)
    IN  [i \in DOMAIN row |-> (e[i] * WeightUnit) \div total]

\* torch.topk(w, k): the k largest entries, largest first; torch does not say
\* which of two equal entries comes first, so every such order is a result.
\* Indices are 0-based as in torch.
TopK(w, k) ==
    {idx \in [1 .. k -> DOMAIN w] :
        /\ \A a, b \in 1 .. k : a # b => idx[a] # idx[b]
        /\ \A a \in 1 .. k - 1 : w[idx[a]] >= w[idx[a + 1]]
        /\ \A j \in DOMAIN w :
              (\A a \in 1 .. k : idx[a] # j) => \A a \in 1 .. k : w[j] <= w[idx[a]]}

ZeroBased(idx) == [a \in DOMAIN idx |-> idx[a] - 1]

\* The results process_router_logits can return for one row of logits.
ProcessRouterLogitsRow(row, top_k) ==
    {ZeroBased(idx) : idx \in TopK(Softmax(row), top_k)}

(***************************************************************************)
(* Decoding inside the output-capture probe (server.py 100-126,            *)
(* model_adapters.py 186-210).  tokenizer.decode belongs to the tokenizer  *)
(* provider; UndecodableIds are the ids for which it raises.  A decoded    *)
(* string is modelled as a tuple of its parts.                             *)
(***************************************************************************)
UndecodableIds == {MaxTokenId}

DecodeToken(t) ==
    IF t \in UndecodableIds THEN <<"[ERROR:", t, "]">> ELSE <<"text", t>>

\* DecodeTokens leaving out the tokens whose decoding raised
DecodeTokensDroppingFailed(tokens) ==
    LET decodable == SelectSeq(tokens, LAMBDA t : t \notin UndecodableIds)
    IN  [i \in DOMAIN decodable |-> DecodeToken(decodable[i])]

\* tokens is always a list here (GetTokenHook), so the list branch runs
DecodeTokens(tokens) == [i \in DOMAIN tokens |-> DecodeToken(tokens[i])]

\* routing_data as get_experts.hook builds it, the tokenizer being set
RoutingData(layer_id, tokens, selected_experts) ==
    [layer_id |-> layer_id,
     tokens |-> tokens,
     selected_experts |-> selected_experts,
     decoded_tokens |-> DecodeTokens(tokens)]

\* Router outputs the model draws from: rows without equal logits.
GateRows == {[i \in 1 .. NumExperts |-> NumExperts - i],
             [i \in 1 .. NumExperts |-> i]}


(***************************************************************************)
(* State.                                                                  *)
(***************************************************************************)
VARIABLES
    tokens_queue,   \* server.py tokens_queue: token batches, oldest first
    routing_queue,  \* server.py routing_queue: routing_data, oldest first
    tokenHooks,     \* requests whose forward pre-hook is attached to embed_tokens
    routerHooks,    \* requests whose forward hook is attached to mlp.gate
    pc,             \* pc[r]: where the generate_text coroutine of request r is
    modelOf,        \* modelOf[r]: request.model of request r
    jobs,           \* run_generation calls submitted to thread_pool, not yet started
    running,        \* the request whose run_generation the worker thread runs
    future,         \* future[r]: outcome of run_generation of r
    stepsDone,      \* forward steps the running generation has completed
    phase,          \* where the worker thread is inside a forward step
    curInput,       \* the input of embed_tokens in the current forward step
    curOutput,      \* the output of mlp.gate in the current forward step
    pendingRouter,  \* router hooks of the current gate call still to run
    relayPc,        \* where process_routing_queue is
    relayData,      \* data, between routing_queue.get() and sio.emit
    published,      \* what sio.emit has sent, in order
    stepsTotal,     \* forward steps started so far, over all generations
    putLog,         \* history: every routing_queue.put, with its forward step
    overlapped,     \* history: a request arrived while another was in progress
    adapter,        \* the last get_model_adapter call and its outcome
    resolved,       \* the last resolve_module_path call and its outcome
    topk            \* the last process_router_logits call and its result

vars == <<tokens_queue, routing_queue, tokenHooks, routerHooks, pc, modelOf,
          jobs, running, future, stepsDone, phase, curInput, curOutput,
          pendingRouter,
          relayPc, relayData, published, stepsTotal, putLog, overlapped, adapter, resolved, topk>>

queueVars == <<tokens_queue, routing_queue>>
hookVars == <<tokenHooks, routerHooks>>
handlerVars == <<pc, modelOf>>
workerVars == <<running, stepsDone, phase, curInput, curOutput, pendingRouter>>
relayVars == <<relayPc, relayData>>

\* no get_model_adapter call yet
NoCall == [config |-> [has_model_type |-> FALSE, model_type |-> <<>>,
                      has_top_k |-> FALSE, top_k |-> 0],
           outcome |-> [outcome |-> "none"]]

\* no resolve_module_path call yet
NoResolve == [steps |-> <<>>, path |-> <<>>, outcome |-> [outcome |-> "none"]]

\* no process_router_logits call yet
NoTopK == [router_logits |-> <<>>, top_k |-> 0, selected_experts |-> <<>>]

NoData == [layer_id |-> -1, tokens |-> <<>>, selected_experts |-> <<>>,
           decoded_tokens |-> <<>>]

Init ==
    /\ tokens_queue = <<>>
    /\ routing_queue = <<>>
    /\ tokenHooks = {}
    /\ routerHooks = {}
    /\ pc = [r \in Requests |-> "new"]
    /\ modelOf = [r \in Requests |-> "none"]
    /\ jobs = <<>>
    /\ running = NoRequest
    /\ future = [r \in Requests |-> "pending"]
    /\ stepsDone = 0
    /\ phase = "between"
    /\ curInput = <<>>
    /\ curOutput = <<>>
    /\ pendingRouter = 0
    /\ relayPc = "poll"
    /\ relayData = NoData
    /\ published = <<>>
    /\ putLog = <<>>
    /\ stepsTotal = 0
    /\ overlapped = FALSE
    /\ adapter = NoCall
    /\ resolved = NoResolve
    /\ topk = NoTopK

(***************************************************************************)
(* The model and tokenizer provider, as far as the server relies on it.    *)
(***************************************************************************)
\* load_model raises ValueError for an id that is not in MODEL_CONFIGS
LoadModelRaises(m) == m \notin {"qwen-1.5-moe-a2.7b", "mixtral-8x7b"}

\* HasMlpGate for a build in which every architecture has mlp.gate
HasMlpGateEverywhere(m) == TRUE

\* model.model.layers[i].mlp.gate exists: config.py gives Mixtral's router as
\* block_sparse_moe.gate, its layers have no mlp attribute
HasMlpGate(m) == m = "qwen-1.5-moe-a2.7b"

\* the hooks attached to the modules of the model of request r
TokenHooksOn(r) == {h \in tokenHooks : modelOf[h] = modelOf[r]}
RouterHooksOn(r) == {h \in routerHooks : modelOf[h] = modelOf[r]}

\* the coroutine of request q is between its first statement and its end
InProgress(q) == pc[q] \in {"token_hooked", "awaiting", "emitted", "token_removed"}

(***************************************************************************)
(* generate_text, one coroutine per request.                               *)
(***************************************************************************)
\* server.py 161-175: tokens_queue.empty() only reads the queue; load the
\* model; register the input-capture hook.
ReceiveRequest(r, m) ==
    /\ pc[r] = "new"
    /\ \A q \in Requests : q < r => pc[q] # "new"
    /\ modelOf' = [modelOf EXCEPT ![r] = m]
    /\ overlapped' = (overlapped \/ \E q \in Requests : InProgress(q))
    /\ IF LoadModelRaises(m)
         THEN /\ pc' = [pc EXCEPT ![r] = "failed"]
              /\ tokenHooks' = tokenHooks
         ELSE /\ pc' = [pc EXCEPT ![r] = "token_hooked"]
              /\ tokenHooks' = tokenHooks \cup {r}
    /\ UNCHANGED <<queueVars, routerHooks, jobs, future, workerVars, relayVars,
                   published, putLog, stepsTotal,
                   adapter, resolved, topk>>

\* server.py 176-200: register the output-capture hook, build the inputs,
\* hand run_generation to the thread pool and await it.
InstallRouterHook(r) ==
    /\ pc[r] = "token_hooked"
    /\ IF HasMlpGate(modelOf[r])
         THEN /\ routerHooks' = routerHooks \cup {r}
              /\ jobs' = Append(jobs, r)
              /\ pc' = [pc EXCEPT ![r] = "awaiting"]
         ELSE /\ pc' = [pc EXCEPT ![r] = "failed"]
              /\ UNCHANGED <<routerHooks, jobs>>
    /\ UNCHANGED <<queueVars, tokenHooks, modelOf, future, workerVars, relayVars,
                   published, putLog, stepsTotal,
                   overlapped, adapter, resolved, topk>>

CompleteMarker(r) == [event |-> "generation_complete", by |-> r]

\* server.py 197-203: the future has a result; decode it; emit the marker.
EmitComplete(r) ==
    /\ pc[r] = "awaiting"
    /\ future[r] = "returned"
    /\ published' = Append(published, CompleteMarker(r))
    /\ pc' = [pc EXCEPT ![r] = "emitted"]
    /\ UNCHANGED <<queueVars, hookVars, modelOf, jobs, future, workerVars,
                   relayVars, putLog, stepsTotal,
                   overlapped, adapter, resolved, topk>>

\* server.py 203: sio.emit raises; the exception leaves the coroutine before
\* the hooks are removed
EmitCompleteRaises(r) ==
    /\ pc[r] = "awaiting"
    /\ future[r] = "returned"
    /\ pc' = [pc EXCEPT ![r] = "failed"]
    /\ UNCHANGED <<queueVars, hookVars, modelOf, jobs, future, workerVars,
                   relayVars, published, putLog, stepsTotal,
                   overlapped, adapter, resolved, topk>>

\* server.py 197-200: the awaited future raises what run_generation raised;
\* generate_text has no try/finally, the exception leaves the coroutine.
GenerationRaised(r) ==
    /\ pc[r] = "awaiting"
    /\ future[r] = "raised"
    /\ pc' = [pc EXCEPT ![r] = "failed"]
    /\ UNCHANGED <<queueVars, hookVars, modelOf, jobs, future, workerVars,
                   relayVars, published, putLog, stepsTotal,
                   overlapped, adapter, resolved, topk>>

\* server.py 205
RemoveTokenHook(r) ==
    /\ pc[r] = "emitted"
    /\ tokenHooks' = tokenHooks \ {r}
    /\ pc' = [pc EXCEPT ![r] = "token_removed"]
    /\ UNCHANGED <<queueVars, routerHooks, modelOf, jobs, future, workerVars,
                   relayVars, published, putLog, stepsTotal,
                   overlapped, adapter, resolved, topk>>

\* server.py 206-208
RemoveRouterHook(r) ==
    /\ pc[r] = "token_removed"
    /\ routerHooks' = routerHooks \ {r}
    /\ pc' = [pc EXCEPT ![r] = "done"]
    /\ UNCHANGED <<queueVars, tokenHooks, modelOf, jobs, future, workerVars,
                   relayVars, published, putLog, stepsTotal,
                   overlapped, adapter, resolved, topk>>


(***************************************************************************)
(* The worker thread of thread_pool: run_generation, that is               *)
(* model.generate, a loop of forward steps.  In a forward step the model   *)
(* calls embed_tokens and later, in the same call stack, the gate of       *)
(* layer 0.  A module call runs the hooks that are attached when the call  *)
(* starts.  model.generate belongs to the model provider: it may make      *)
(* any number of forward steps and may raise at any point of its own code. *)
(***************************************************************************)
BusyWorkers == IF running = NoRequest THEN 0 ELSE 1

WorkerStart ==
    /\ BusyWorkers < THREAD_POOL_WORKERS
    /\ jobs # <<>>
    /\ running' = Head(jobs)
    /\ jobs' = Tail(jobs)
    /\ stepsDone' = 0
    /\ phase' = "between"
    /\ UNCHANGED <<queueVars, hookVars, handlerVars, future, curInput, curOutput,
                   pendingRouter, relayVars, published, putLog, stepsTotal,
                   overlapped, adapter, resolved, topk>>

\* embed_tokens(input): every attached pre-hook runs get_token.hook, which
\* puts the token batch on tokens_queue (server.py 142-147).
EmbedCall(inp) ==
    /\ running # NoRequest
    /\ phase = "between"
    /\ stepsTotal < MaxSteps
    /\ stepsTotal' = stepsTotal + 1
    /\ tokens_queue' = AppendN(tokens_queue, GetTokenHook(inp),
                               Cardinality(TokenHooksOn(running)))
    /\ curInput' = inp
    /\ phase' = "embedded"
    /\ UNCHANGED <<routing_queue, hookVars, handlerVars, jobs, running, future,
                   stepsDone, curOutput, pendingRouter, relayVars, published,
                   putLog,
                   overlapped, adapter, resolved, topk>>

\* what the forward step does once the gate call and its hooks are over
StepEnds ==
    /\ phase' = "between"
    /\ stepsDone' = stepsDone + 1
    /\ curInput' = <<>>
    /\ curOutput' = <<>>

\* mlp.gate(x) computes its output, one row of logits per token, and then
\* runs the forward hooks attached at this moment.
GateCall(row) ==
    /\ running # NoRequest
    /\ phase = "embedded"
    /\ LET n == Cardinality(RouterHooksOn(running))
       IN  IF n = 0
             THEN /\ StepEnds
                  /\ pendingRouter' = 0
             ELSE /\ phase' = "gate"
                  /\ curOutput' = [i \in 1 .. Len(curInput) |-> row]
                  /\ pendingRouter' = n
                  /\ UNCHANGED <<stepsDone, curInput>>
    /\ UNCHANGED <<queueVars, hookVars, handlerVars, jobs, running, future,
                   relayVars, published, putLog, stepsTotal,
                   overlapped, adapter, resolved, topk>>

\* process_router_logits(row, top_k=4) of every row the gate can output
ServerSelections == [row \in GateRows |-> ProcessRouterLogitsRow(row, SERVER_TOP_K)]

\* the values process_router_logits(output, top_k=4).tolist() can have
SelectedExperts(output) ==
    {sel \in [DOMAIN output -> UNION {ServerSelections[row] : row \in GateRows}] :
        \A i \in DOMAIN output : sel[i] \in ServerSelections[output[i]]}

\* RouterHook reading the oldest batch without taking it off tokens_queue
RouterHookPeeking ==
    /\ running # NoRequest
    /\ phase = "gate"
    /\ pendingRouter > 0
    /\ tokens_queue # <<>>
    /\ \E sel \in SelectedExperts(curOutput) :
         LET tokens == Head(tokens_queue)
             data == RoutingData(SERVER_LAYER, tokens, sel)
         IN  /\ tokens_queue' = tokens_queue
             /\ routing_queue' = Append(routing_queue, data)
             /\ putLog' = Append(putLog, [data |-> data,
                                          captured |-> GetTokenHook(curInput),
                                          req |-> running])
    /\ pendingRouter' = pendingRouter - 1
    /\ IF pendingRouter = 1
         THEN StepEnds
         ELSE UNCHANGED <<phase, stepsDone, curInput, curOutput>>
    /\ UNCHANGED <<hookVars, handlerVars, jobs, running, future, relayVars,
                   published, stepsTotal,
                   overlapped, adapter, resolved, topk>>

\* RouterHook with a routing_queue of maxsize 1: put blocks while it is full
RouterHookBoundedQueue ==
    /\ running # NoRequest
    /\ phase = "gate"
    /\ pendingRouter > 0
    /\ tokens_queue # <<>>
    /\ Len(routing_queue) < 1
    /\ \E sel \in SelectedExperts(curOutput) :
         LET tokens == Head(tokens_queue)
             data == RoutingData(SERVER_LAYER, tokens, sel)
         IN  /\ tokens_queue' = Tail(tokens_queue)
             /\ routing_queue' = Append(routing_queue, data)
             /\ putLog' = Append(putLog, [data |-> data,
                                          captured |-> GetTokenHook(curInput),
                                          req |-> running])
    /\ pendingRouter' = pendingRouter - 1
    /\ IF pendingRouter = 1
         THEN StepEnds
         ELSE UNCHANGED <<phase, stepsDone, curInput, curOutput>>
    /\ UNCHANGED <<hookVars, handlerVars, jobs, running, future, relayVars,
                   published, stepsTotal,
                   overlapped, adapter, resolved, topk>>

\* get_experts.hook (server.py 90-129): tokens_queue.get() blocks while the
\* queue is empty, so the hook goes on only when a batch is there.
RouterHook ==
    /\ running # NoRequest
    /\ phase = "gate"
    /\ pendingRouter > 0
    /\ tokens_queue # <<>>
    /\ \E sel \in SelectedExperts(curOutput) :
         LET tokens == Head(tokens_queue)
             data == RoutingData(SERVER_LAYER, tokens, sel)
         IN  /\ tokens_queue' = Tail(tokens_queue)
             /\ routing_queue' = Append(routing_queue, data)
             /\ putLog' = Append(putLog, [data |-> data,
                                          captured |-> GetTokenHook(curInput),
                                          req |-> running])
    /\ pendingRouter' = pendingRouter - 1
    /\ IF pendingRouter = 1
         THEN StepEnds
         ELSE UNCHANGED <<phase, stepsDone, curInput, curOutput>>
    /\ UNCHANGED <<hookVars, handlerVars, jobs, running, future, relayVars,
                   published, stepsTotal,
                   overlapped, adapter, resolved, topk>>

\* model.generate returns after at least one forward step (server.py 191-194)
GenerateReturns ==
    /\ running # NoRequest
    /\ phase = "between"
    /\ stepsDone >= 1
    /\ future' = [future EXCEPT ![running] = "returned"]
    /\ running' = NoRequest
    /\ stepsDone' = 0
    /\ UNCHANGED <<queueVars, hookVars, handlerVars, jobs, phase, curInput,
                   curOutput, pendingRouter, relayVars, published, putLog, stepsTotal,
                   overlapped, adapter, resolved, topk>>

\* model.generate raises, between two forward steps or inside one, after
\* embed_tokens and before the gate (server.py 191-194)
GenerateRaises ==
    /\ running # NoRequest
    /\ phase \in {"between", "embedded"}
    /\ future' = [future EXCEPT ![running] = "raised"]
    /\ running' = NoRequest
    /\ stepsDone' = 0
    /\ phase' = "between"
    /\ curInput' = <<>>
    /\ UNCHANGED <<queueVars, hookVars, handlerVars, jobs, curOutput,
                   pendingRouter, relayVars, published, putLog, stepsTotal,
                   overlapped, adapter, resolved, topk>>

(***************************************************************************)
(* The relay: process_routing_queue, a task of the event loop created at   *)
(* startup (server.py 48-58).                                              *)
(***************************************************************************)
RoutingUpdate(data) == [event |-> "routing_update", data |-> data]

\* RelayGet taking the newest routing_data instead of the oldest
RelayGetNewest ==
    /\ relayPc = "poll"
    /\ routing_queue # <<>>
    /\ relayData' = routing_queue[Len(routing_queue)]
    /\ routing_queue' = SubSeq(routing_queue, 1, Len(routing_queue) - 1)
    /\ relayPc' = "emit"
    /\ UNCHANGED <<tokens_queue, hookVars, handlerVars, jobs, future, workerVars,
                   published, putLog, stepsTotal, overlapped, adapter, resolved, topk>>

\* server.py 50-51: the queue is not empty, get the oldest routing_data
RelayGet ==
    /\ relayPc = "poll"
    /\ routing_queue # <<>>
    /\ relayData' = Head(routing_queue)
    /\ routing_queue' = Tail(routing_queue)
    /\ relayPc' = "emit"
    /\ UNCHANGED <<tokens_queue, hookVars, handlerVars, jobs, future, workerVars,
                   published, putLog, stepsTotal,
                   overlapped, adapter, resolved, topk>>

\* server.py 52-53: sio.emit sends the update; sleep; loop
RelayEmit ==
    /\ relayPc = "emit"
    /\ published' = Append(published, RoutingUpdate(relayData))
    /\ relayPc' = "poll"
    /\ relayData' = NoData
    /\ UNCHANGED <<queueVars, hookVars, handlerVars, jobs, future, workerVars,
                   putLog, stepsTotal,
                   overlapped, adapter, resolved, topk>>

\* server.py 49-53: sio.emit raises; nothing in the loop catches it, the
\* exception ends the task
RelayEmitRaises ==
    /\ relayPc = "emit"
    /\ relayPc' = "dead"
    /\ relayData' = NoData
    /\ UNCHANGED <<queueVars, hookVars, handlerVars, jobs, future, workerVars,
                   published, putLog, stepsTotal,
                   overlapped, adapter, resolved, topk>>

(***************************************************************************)
(* The server.                                                             *)
(***************************************************************************)
Next ==
    \/ \E r \in Requests, m \in ModelIds : ReceiveRequest(r, m)
    \/ \E r \in Requests : InstallRouterHook(r)
    \/ \E r \in Requests : EmitComplete(r)
    \/ \E r \in Requests : EmitCompleteRaises(r)
    \/ \E r \in Requests : GenerationRaised(r)
    \/ \E r \in Requests : RemoveTokenHook(r)
    \/ \E r \in Requests : RemoveRouterHook(r)
    \/ WorkerStart
    \/ \E inp \in Inputs : EmbedCall(inp)
    \/ \E row \in GateRows : GateCall(row)
    \/ RouterHook
    \/ GenerateReturns
    \/ GenerateRaises
    \/ RelayGet
    \/ RelayEmit
    \/ RelayEmitRaises

Spec == Init /\ [][Next]_vars

\* The event loop runs the relay task whenever it can run: a step of the
\* relay that stays possible is taken.
FairSpec == Spec /\ WF_vars(RelayGet) /\ WF_vars(RelayEmit)


(***************************************************************************)
(* The relay step by step: the test routing_queue.empty() of server.py     *)
(* line 50 and the blocking routing_queue.get() of line 51 are two steps,  *)
(* between which the worker thread may run.                                *)
(***************************************************************************)
\* RelayObserve going on to the get without looking at the queue
RelayObserveUnchecked ==
    /\ relayPc = "poll"
    /\ relayPc' = "get"
    /\ UNCHANGED <<queueVars, hookVars, handlerVars, jobs, future, workerVars,
                   relayData, published, putLog, stepsTotal,
                   overlapped, adapter, resolved, topk>>

\* server.py 50: routing_queue.empty() is false; an empty queue sends the
\* task to its sleep and back to the test
RelayObserve ==
    /\ relayPc = "poll"
    /\ routing_queue # <<>>
    /\ relayPc' = "get"
    /\ UNCHANGED <<queueVars, hookVars, handlerVars, jobs, future, workerVars,
                   relayData, published, putLog, stepsTotal,
                   overlapped, adapter, resolved, topk>>

\* server.py 51: routing_queue.get() blocks while the queue is empty
RelayBlockingGet ==
    /\ relayPc = "get"
    /\ routing_queue # <<>>
    /\ relayData' = Head(routing_queue)
    /\ routing_queue' = Tail(routing_queue)
    /\ relayPc' = "emit"
    /\ UNCHANGED <<tokens_queue, hookVars, handlerVars, jobs, future, workerVars,
                   published, putLog, stepsTotal,
                   overlapped, adapter, resolved, topk>>

RelayNext ==
    \/ \E r \in Requests, m \in ModelIds : ReceiveRequest(r, m)
    \/ \E r \in Requests : InstallRouterHook(r)
    \/ \E r \in Requests : EmitComplete(r)
    \/ \E r \in Requests : EmitCompleteRaises(r)
    \/ \E r \in Requests : GenerationRaised(r)
    \/ \E r \in Requests : RemoveTokenHook(r)
    \/ \E r \in Requests : RemoveRouterHook(r)
    \/ WorkerStart
    \/ \E inp \in Inputs : EmbedCall(inp)
    \/ \E row \in GateRows : GateCall(row)
    \/ RouterHook
    \/ GenerateReturns
    \/ GenerateRaises
    \/ RelayObserve
    \/ RelayBlockingGet
    \/ RelayEmit
    \/ RelayEmitRaises

SpecRelay == Init /\ [][RelayNext]_vars


(***************************************************************************)
(* get_model_adapter (model_adapters.py 268-287).  A string is a sequence  *)
(* of one-character strings.  A config is a dict: has_model_type and        *)
(* has_top_k say whether it has the key.                                   *)
(***************************************************************************)
LowerLetters == <<"q", "w", "e", "n", "m", "i", "x", "t", "r", "a", "l", "g", "p">>
UpperLetters == <<"Q", "W", "E", "N", "M", "I", "X", "T", "R", "A", "L", "G", "P">>

\* str.lower() on one character: an upper-case letter becomes its lower-case
\* letter, every other character stays
LowerChar(c) ==
    IF \E i \in DOMAIN UpperLetters : UpperLetters[i] = c
      THEN LowerLetters[CHOOSE i \in DOMAIN UpperLetters : UpperLetters[i] = c]
      ELSE c

Lower(str) == [i \in DOMAIN str |-> LowerChar(str[i])]

UpperChar(c) ==
    IF \E i \in DOMAIN LowerLetters : LowerLetters[i] = c
      THEN UpperLetters[CHOOSE i \in DOMAIN LowerLetters : LowerLetters[i] = c]
      ELSE c

qwen == <<"q", "w", "e", "n">>
mixtral == <<"m", "i", "x", "t", "r", "a", "l">>

\* dict.get(key, default)
DictGet(has, value, default) == IF has THEN value ELSE default

unknown == <<"u", "n", "k", "n", "o", "w", "n">>

\* ModelAdapter.__init__ (model_adapters.py 11-19)
NewAdapter(class, config) ==
    [class |-> class,
     top_k |-> DictGet(config.has_top_k, config.top_k, DEFAULT_TOP_K),
     model_type |-> DictGet(config.has_model_type, config.model_type, unknown)]

ErrorPrefix == "No adapter available for model type: "

\* get_model_adapter falling back to an adapter for an unknown model_type
GetModelAdapterDefaulting(config) ==
    LET model_type == Lower(DictGet(config.has_model_type, config.model_type, <<>>))
    IN  IF model_type = qwen
          THEN [outcome |-> "returned",
                value |-> NewAdapter("QwenMoEAdapter", config)]
          ELSE [outcome |-> "returned",
                value |-> NewAdapter("MixtralAdapter", config)]

\* get_model_adapter(model_config): what it returns or raises
GetModelAdapter(config) ==
    LET model_type == Lower(DictGet(config.has_model_type, config.model_type, <<>>))
    IN  IF model_type = qwen
          THEN [outcome |-> "returned",
                value |-> NewAdapter("QwenMoEAdapter", config)]
          ELSE IF model_type = mixtral
                 THEN [outcome |-> "returned",
                       value |-> NewAdapter("MixtralAdapter", config)]
                 ELSE [outcome |-> "raised",
                       error |-> "ValueError",
                       message |-> [text |-> ErrorPrefix, names |-> model_type]]

\* every spelling of a word in upper- and lower-case letters
RECURSIVE CaseVariants(_)
CaseVariants(word) ==
    IF word = <<>> THEN {<<>>}
    ELSE {<<c>> \o rest : c \in {Head(word), UpperChar(Head(word))},
                          rest \in CaseVariants(Tail(word))}

\* The model_type values the model gives to get_model_adapter.
ModelTypes ==
    CaseVariants(qwen) \cup CaseVariants(mixtral)
      \cup CaseVariants(<<"g", "p", "t">>)
      \cup {<<>>, <<"q", "w", "e", "n", "2">>, <<"q", "w", "e">>,
            <<" ", "q", "w", "e", "n">>, <<"m", "i", "x", "t", "r", "a", "l", "8">>}

\* The top_k values of MODEL_CONFIGS.
TopKs == {4, 2}

\* The configs the model gives to get_model_adapter; a key the dict does not
\* have has no value.
Configs ==
    {c \in [has_model_type : BOOLEAN, model_type : ModelTypes,
            has_top_k : BOOLEAN, top_k : TopKs \cup {0}] :
        /\ c.has_model_type \/ c.model_type = <<>>
        /\ c.has_top_k <=> c.top_k # 0}

CallGetModelAdapter(config) ==
    /\ adapter' = [config |-> config, outcome |-> GetModelAdapter(config)]
    /\ UNCHANGED <<queueVars, hookVars, handlerVars, jobs, future, workerVars,
                   relayVars, published, putLog, stepsTotal, overlapped,
                   resolved, topk>>

AdapterNext == \E config \in Configs : CallGetModelAdapter(config)

SpecAdapter == Init /\ [][AdapterNext]_vars


(***************************************************************************)
(* ModelAdapter.resolve_module_path (model_adapters.py 33-93).  A path is  *)
(* a sequence of characters; the model is a tree of objects, each with     *)
(* named attributes and, for a module list, numbered items.                *)
(***************************************************************************)
MaxPathSteps == 4

\* the layers the model object exposes
NumLayers == 3

Digits == <<"0", "1", "2", "3", "4", "5", "6", "7", "8", "9">>

IsDigit(c) == \E d \in DOMAIN Digits : Digits[d] = c

DigitValue(c) == (CHOOSE d \in DOMAIN Digits : Digits[d] = c) - 1

Letters ==
    {"a", "b", "c", "d", "e", "f", "g", "h", "i", "j", "k", "l", "m", "n",
     "o", "p", "q", "r", "s", "t", "u", "v", "w", "x", "y", "z", "_"}

IsLetter(c) == c \in Letters

\* Python's int for a string of digits
RECURSIVE DecimalValue(_)
DecimalValue(text) ==
    IF text = <<>> THEN 0
    ELSE 10 * DecimalValue(SubSeq(text, 1, Len(text) - 1))
             + DigitValue(text[Len(text)])

\* a decimal integer literal of Python: digits, no leading zero before a
\* non-zero digit
IsDecimalLiteral(text) ==
    /\ text # <<>>
    /\ \A k \in DOMAIN text : IsDigit(text[k])
    /\ (Len(text) > 1 /\ text[1] = "0") => \A k \in DOMAIN text : text[k] = "0"

IsName(text) ==
    /\ text # <<>>
    /\ \A k \in DOMAIN text : IsLetter(text[k])

\* a part of the parsed path: an attribute name or an index
AttrPart(name) == [kind |-> "attr", name |-> name, idx |-> 0]
IndexPart(idx) == [kind |-> "index", name |-> <<>>, idx |-> idx]
NoPart == [kind |-> "none", name |-> <<>>, idx |-> 0]

Value(n) == [outcome |-> "value", value |-> n]

\* an exception: its class, the operation that raised it and the part its
\* message names
Raised(error, by, names) ==
    [outcome |-> "raised", error |-> error, by |-> by, names |-> names]

\* the first position of character c in text, 0 when there is none
FirstOf(c, text) ==
    IF \E k \in DOMAIN text : text[k] = c
    THEN CHOOSE k \in DOMAIN text :
            text[k] = c /\ \A h \in 1 .. k - 1 : text[h] # c
    ELSE 0

\* eval(bracket_content) at model_adapters.py line 61, for the expressions
\* made of decimal literals, names, unary minus and plus, and binary plus.
\* The content is evaluated in the frame of resolve_module_path: the names
\* i and j are its loop counters, any other name here is unbound.
RECURSIVE Eval(_, _, _)
Eval(text, i, j) ==
    LET plus == FirstOf("+", text)
    IN  IF text = <<>> THEN Raised("SyntaxError", "eval", NoPart)
        ELSE IF plus > 1 THEN
            LET left == Eval(SubSeq(text, 1, plus - 1), i, j)
                right == Eval(SubSeq(text, plus + 1, Len(text)), i, j)
            IN  IF left.outcome = "raised" THEN left
                ELSE IF right.outcome = "raised" THEN right
                ELSE Value(left.value + right.value)
        ELSE IF text[1] = "+" THEN Eval(Tail(text), i, j)
        ELSE IF text[1] = "-" THEN
            LET operand == Eval(Tail(text), i, j)
            IN  IF operand.outcome = "raised" THEN operand
                ELSE Value(0 - operand.value)
        ELSE IF IsDecimalLiteral(text) THEN Value(DecimalValue(text))
        ELSE IF text = <<"i">> THEN Value(i)
        ELSE IF text = <<"j">> THEN Value(j)
        ELSE IF IsName(text) THEN Raised("NameError", "eval", AttrPart(text))
        ELSE Raised("SyntaxError", "eval", NoPart)

\* if current: parts.append(current)
Flush(parts, current) ==
    IF current # <<>> THEN Append(parts, AttrPart(current)) ELSE parts

\* the position of the first "]" at or after position from, Len + 1 if none
ClosingAt(path, from) ==
    IF \E k \in from .. Len(path) : path[k] = "]"
    THEN CHOOSE k \in from .. Len(path) :
            path[k] = "]" /\ \A h \in from .. k - 1 : path[h] # "]"
    ELSE Len(path) + 1

\* the while loop of model_adapters.py 50-79, from position i (counted from
\* 1 here, from 0 in the source) with the accumulators current and parts
RECURSIVE ParseParts(_, _, _, _)
ParseParts(path, i, current, parts) ==
    IF i > Len(path) THEN [outcome |-> "parsed", parts |-> Flush(parts, current)]
    ELSE IF path[i] = "[" THEN
        LET j == ClosingAt(path, i + 1)
            bracket_content == SubSeq(path, i + 1, j - 1)
            index == Eval(bracket_content, i - 1, j - 1)
        IN  IF j <= Len(path) THEN
                IF index.outcome = "raised" THEN index
                ELSE ParseParts(path, j + 1, <<>>,
                                Append(Flush(parts, current),
                                       IndexPart(index.value)))
            ELSE ParseParts(path, i + 1, <<"[">>, Flush(parts, current))
    ELSE IF path[i] = "." THEN
        ParseParts(path, i + 1, <<>>, Flush(parts, current))
    ELSE ParseParts(path, i + 1, Append(current, path[i]), parts)

\* path.split('.')
RECURSIVE Split(_)
Split(path) ==
    LET dot == FirstOf(".", path)
    IN  IF dot = 0 THEN <<path>>
        ELSE <<SubSeq(path, 1, dot - 1)>>
                \o Split(SubSeq(path, dot + 1, Len(path)))

HasAttr(obj, name) == \E k \in DOMAIN obj.attrs : obj.attrs[k].name = name

\* the attribute of obj called name, for an object that has it
AttrOf(obj, name) ==
    obj.attrs[CHOOSE k \in DOMAIN obj.attrs : obj.attrs[k].name = name].value

\* getattr(obj, part), model_adapters.py line 86 and line 92
GetAttr(obj, name) ==
    IF HasAttr(obj, name) THEN Value(AttrOf(obj, name))
    ELSE Raised("AttributeError", "getattr", AttrPart(name))

\* ModuleList.__getitem__ resolving an index past the end to the last item
GetItemClamping(obj, idx) ==
    IF ~obj.subscriptable THEN Raised("TypeError", "getitem", NoPart)
    ELSE IF idx < 0 - Len(obj.items) THEN
        Raised("IndexError", "getitem", IndexPart(idx))
    ELSE IF idx >= Len(obj.items) THEN Value(obj.items[Len(obj.items)])
    ELSE Value(obj.items[(idx % Len(obj.items)) + 1])

\* obj[idx], model_adapters.py line 62: an index below zero counts from the
\* end of a module list; an object that is not a list takes no index
GetItem(obj, idx) ==
    IF ~obj.subscriptable THEN Raised("TypeError", "getitem", NoPart)
    ELSE IF idx < 0 - Len(obj.items) \/ idx >= Len(obj.items) THEN
        Raised("IndexError", "getitem", IndexPart(idx))
    ELSE Value(obj.items[(idx % Len(obj.items)) + 1])

\* the for loop of model_adapters.py 82-87
RECURSIVE ResolveParts(_, _)
ResolveParts(obj, parts) ==
    IF parts = <<>> THEN [outcome |-> "returned", value |-> obj]
    ELSE LET part == Head(parts)
             next == IF part.kind = "index" THEN GetItem(obj, part.idx)
                     ELSE GetAttr(obj, part.name)
         IN  IF next.outcome = "raised" THEN next
             ELSE ResolveParts(next.value, Tail(parts))

\* resolve_module_path(model, path): what it returns or raises
ResolveModulePath(model, path) ==
    IF (\E k \in DOMAIN path : path[k] = "[")
          /\ (\E k \in DOMAIN path : path[k] = "]")
    THEN LET parsed == ParseParts(path, 1, <<>>, <<>>)
         IN  IF parsed.outcome = "raised" THEN parsed
             ELSE ResolveParts(model, parsed.parts)
    ELSE LET names == Split(path)
         IN  ResolveParts(model, [k \in DOMAIN names |-> AttrPart(names[k])])

\* The model object the paths are resolved against: layers, a module list of
\* NumLayers decoder layers, each with mlp.gate, as the router_location of
\* the Qwen configuration expects it.
layers == <<"l", "a", "y", "e", "r", "s">>
mlp == <<"m", "l", "p">>
gate == <<"g", "a", "t", "e">>

Module(class, layer, attrs) ==
    [class |-> class, layer |-> layer, attrs |-> attrs, items |-> <<>>,
     subscriptable |-> FALSE]

GateModule(k) == Module("Linear", k, <<>>)
MlpModule(k) ==
    Module("SparseMoeBlock", k, <<[name |-> gate, value |-> GateModule(k)]>>)
DecoderLayer(k) ==
    Module("DecoderLayer", k, <<[name |-> mlp, value |-> MlpModule(k)]>>)

\* a module list also holds its items as attributes named "0", "1", ...
ModuleList ==
    [class |-> "ModuleList", layer |-> -1,
     attrs |-> [k \in 1 .. NumLayers |->
                    [name |-> <<Digits[k]>>, value |-> DecoderLayer(k - 1)]],
     items |-> [k \in 1 .. NumLayers |-> DecoderLayer(k - 1)],
     subscriptable |-> TRUE]

ModelObject == Module("Model", -1, <<[name |-> layers, value |-> ModuleList]>>)

\* The paths the model gives to resolve_module_path are written from steps:
\* an attribute step is a name, a bracketed step is the text between the
\* brackets.
AttrStep(name) == [kind |-> "attr", text |-> name]
IndexStep(text) == [kind |-> "index", text |-> text]

AttrNames == {layers, mlp, gate, <<"x">>}
BracketContents ==
    {<<"0">>, <<"2">>, <<"9">>, <<"-", "1">>, <<"1", "+", "1">>, <<>>,
     <<"x">>, <<"i">>}

StepAlphabet ==
    {AttrStep(n) : n \in AttrNames} \cup {IndexStep(t) : t \in BracketContents}

PathSteps == UNION {[1 .. n -> StepAlphabet] : n \in 1 .. MaxPathSteps}

RECURSIVE Render(_)
Render(steps) ==
    IF steps = <<>> THEN <<>>
    ELSE LET front == SubSeq(steps, 1, Len(steps) - 1)
             step == steps[Len(steps)]
         IN  IF step.kind = "index"
             THEN Render(front) \o <<"[">> \o step.text \o <<"]">>
             ELSE IF front = <<>> THEN step.text
             ELSE Render(front) \o <<".">> \o step.text

\* one call in a behaviour: the function keeps no state between calls
CallResolveModulePath(steps) ==
    /\ resolved = NoResolve
    /\ resolved' = [steps |-> steps, path |-> Render(steps),
                    outcome |-> ResolveModulePath(ModelObject, Render(steps))]
    /\ UNCHANGED <<queueVars, hookVars, handlerVars, jobs, future, workerVars,
                   relayVars, published, putLog, stepsTotal, overlapped,
                   adapter, topk>>

ResolveNext ==
    /\ resolved = NoResolve
    /\ \E steps \in PathSteps : CallResolveModulePath(steps)

SpecResolve == Init /\ [][ResolveNext]_vars

(***************************************************************************)
(* The output-capture probe on its own: get_experts.hook (server.py        *)
(* 88-131) about to run in a forward step of a Qwen session, for every     *)
(* token batch of up to MaxProbeLen tokens.                                *)
(***************************************************************************)
MaxProbeLen == 3

\* token ids of the batches: one more than TokenIds, so that an id that
\* does not decode can stand between ids that do
ProbeTokenIds == 1 .. MaxTokenId + 1

ProbeInputs == UNION {[1 .. n -> ProbeTokenIds] : n \in 1 .. MaxProbeLen}

ProbeInit ==
    /\ \E inp \in ProbeInputs, row \in GateRows :
          /\ curInput = inp
          /\ curOutput = [i \in 1 .. Len(inp) |-> row]
          /\ tokens_queue = <<GetTokenHook(inp)>>
    /\ routing_queue = <<>>
    /\ tokenHooks = {1}
    /\ routerHooks = {1}
    /\ pc = [r \in Requests |-> IF r = 1 THEN "awaiting" ELSE "new"]
    /\ modelOf = [r \in Requests |->
                     IF r = 1 THEN "qwen-1.5-moe-a2.7b" ELSE "none"]
    /\ jobs = <<>>
    /\ running = 1
    /\ future = [r \in Requests |-> "pending"]
    /\ stepsDone = 0
    /\ phase = "gate"
    /\ pendingRouter = 1
    /\ relayPc = "poll"
    /\ relayData = NoData
    /\ published = <<>>
    /\ putLog = <<>>
    /\ stepsTotal = 1
    /\ overlapped = FALSE
    /\ adapter = NoCall
    /\ resolved = NoResolve
    /\ topk = NoTopK

SpecProbe == ProbeInit /\ [][RouterHook]_vars

(***************************************************************************)
(* process_router_logits on its own (server.py 133-137, model_adapters.py  *)
(* 127-139): one row of logits over TopKExperts experts, equal logits      *)
(* included.                                                               *)
(***************************************************************************)
TopKExperts == 4
MaxLogit == 2

TopKRows == [1 .. TopKExperts -> 0 .. MaxLogit]

\* one call in a behaviour: the function keeps no state between calls
CallProcessRouterLogits(row, top_k) ==
    /\ topk = NoTopK
    /\ \E sel \in ProcessRouterLogitsRow(row, top_k) :
          topk' = [router_logits |-> row, top_k |-> top_k,
                   selected_experts |-> sel]
    /\ UNCHANGED <<queueVars, hookVars, handlerVars, jobs, future, workerVars,
                   relayVars, published, putLog, stepsTotal, overlapped,
                   adapter, resolved>>

TopKNext ==
    /\ topk = NoTopK
    /\ \E row \in TopKRows, top_k \in TopKs :
          CallProcessRouterLogits(row, top_k)

SpecTopK == Init /\ [][TopKNext]_vars

\* config.py 13-32: the configured architectures and their top_k
MODEL_CONFIGS ==
    [m \in {"qwen-1.5-moe-a2.7b", "mixtral-8x7b"} |->
        IF m = "qwen-1.5-moe-a2.7b"
        THEN [model_type |-> qwen, top_k |-> 4]
        ELSE [model_type |-> mixtral, top_k |-> 2]]

(***************************************************************************)
(* Properties.                                                             *)
(***************************************************************************)
\* the routing_data sio.emit has sent, in order
PublishedData ==
    LET updates == SelectSeq(published, LAMBDA e : e.event = "routing_update")
    IN  [i \in DOMAIN updates |-> updates[i].data]

\* the positions of the completion markers of request r in published
Markers(r) ==
    {i \in DOMAIN published :
        /\ published[i].event = "generation_complete"
        /\ published[i].by = r}

\* generate_text of request r has returned or raised
Ended(r) == pc[r] \in {"done", "failed"}

\* both hooks of r are installed, or r is removing them
Capturing(r) == pc[r] \in {"awaiting", "emitted", "token_removed"}

\* request 1 is the only request received so far
OnlyFirstSession == \A r \in Requests : r > 1 => pc[r] = "new"

\* routing events one forward step can put: one per attached router hook
MaxEvents == MaxSteps * MaxRequests

\* C1: in one session of N forward steps, each firing input-capture and then
\* output-capture once, exactly N routing events are put on the routing
\* queue and the i-th of them carries sequence_index i - 1.
C1_SequenceIndexContiguous ==
    OnlyFirstSession =>
        /\ \A i \in DOMAIN putLog :
              /\ "sequence_index" \in DOMAIN putLog[i].data
              /\ putLog[i].data.sequence_index = i - 1
        /\ future[1] = "returned" => Len(putLog) = stepsTotal

\* C2: every routing event put on the routing queue carries the token batch
\* the input-capture probe captured in the same forward step, also in a
\* session that starts after an earlier session has ended.
C2_EventCarriesStepBatch ==
    ~overlapped =>
        \A i \in DOMAIN putLog : putLog[i].data.tokens = putLog[i].captured

\* C3: a request that arrives while another session is capturing is
\* rejected: it installs no probe and the attached probes stay as they are.
C3_BusyRequestRejected ==
    [][\A r \in Requests :
          (/\ pc[r] = "new"
           /\ pc'[r] # "new"
           /\ \E q \in Requests : q # r /\ Capturing(q))
          => (/\ pc'[r] = "failed"
              /\ tokenHooks' = tokenHooks
              /\ routerHooks' = routerHooks)]_vars

\* C4: after a session whose generation returned or raised has ended, no
\* probe of that session is attached to the model.
C4_NoProbeAfterSessionEnd ==
    \A r \in Requests :
        (Ended(r) /\ future[r] # "pending") =>
            (r \notin tokenHooks /\ r \notin routerHooks)

\* C5: when a session emits its completion marker, the routing queue is
\* empty and the relay holds no event that it would publish after the marker.
C5_CompleteAfterDrain ==
    [][\A r \in Requests :
          (~overlapped /\ pc[r] = "awaiting" /\ pc'[r] = "emitted")
          => (routing_queue = <<>> /\ relayPc # "emit")]_vars

\* C6: the routing events the relay has published are a prefix of the events
\* put on the routing queue: same order, none twice.
C6_PublishedIsPrefixOfPut ==
    /\ Len(PublishedData) <= Len(putLog)
    /\ \A i \in DOMAIN PublishedData : PublishedData[i] = putLog[i].data

\* C6: two different events have been published.
C6_TwoDifferentPublished ==
    /\ Len(PublishedData) >= 2
    /\ PublishedData[1] # PublishedData[2]

\* C7: every routing event put on the routing queue is eventually published,
\* the relay task being scheduled fairly.
C7_EveryPutEventuallyPublished ==
    \A k \in 1 .. MaxEvents :
        (Len(putLog) >= k) ~> (Len(PublishedData) >= k)

\* C8: an output-capture probe that runs while the pending-token queue is
\* empty does not block the compute thread.
C8_ProbeNeverBlocks ==
    ~(phase = "gate" /\ pendingRouter > 0 /\ tokens_queue = <<>>)

\* C9: every session that started capturing and has ended has published
\* exactly one completion marker, whether its generation returned or raised.
C9_OneMarkerPerSession ==
    \A r \in Requests :
        (Ended(r) /\ future[r] # "pending") => Cardinality(Markers(r)) = 1

\* the identifier a config gives: its model_type, or none
Identifier(config) == DictGet(config.has_model_type, config.model_type, <<>>)

EqualsIgnoringCase(a, b) ==
    /\ Len(a) = Len(b)
    /\ \A i \in DOMAIN a : LowerChar(a[i]) = LowerChar(b[i])

\* C10 as stated: the Qwen variant only for the identifier qwen, the Mixtral
\* variant only for mixtral, for every other identifier an error naming it
\* (in lower case, as the message spells it).
C10_OnlyExactIdentifiers ==
    LET id == Identifier(adapter.config)
        out == adapter.outcome
    IN  /\ out.outcome = "returned" =>
              \/ out.value.class = "QwenMoEAdapter" /\ id = qwen
              \/ out.value.class = "MixtralAdapter" /\ id = mixtral
        /\ out.outcome = "raised" => out.message.names = Lower(id)

\* C10 amended: the Qwen variant exactly for the identifiers that are qwen up
\* to letter case, the Mixtral variant exactly for those that are mixtral up
\* to letter case; for every other identifier, a missing one included, an
\* error naming the lower-cased identifier and never an adapter.
C10_AdapterByCaseFoldedIdentifier ==
    LET id == Identifier(adapter.config)
        out == adapter.outcome
    IN  out.outcome # "none" =>
          /\ EqualsIgnoringCase(id, qwen) =>
                out.outcome = "returned" /\ out.value.class = "QwenMoEAdapter"
          /\ EqualsIgnoringCase(id, mixtral) =>
                out.outcome = "returned" /\ out.value.class = "MixtralAdapter"
          /\ (~EqualsIgnoringCase(id, qwen) /\ ~EqualsIgnoringCase(id, mixtral)) =>
                /\ out.outcome = "raised"
                /\ out.message.names = [i \in DOMAIN id |-> LowerChar(id[i])]

\* C10: get_model_adapter was called with the identifier Qwen and returned.
C10_MixedCaseSelected ==
    /\ adapter.config.has_model_type
    /\ adapter.config.model_type = <<"Q", "w", "e", "n">>
    /\ adapter.outcome.outcome = "returned"

\* a path of attribute steps and bracketed index steps: every attribute step
\* is a name, every bracketed step a decimal literal
WellFormed(steps) ==
    \A k \in DOMAIN steps :
        IF steps[k].kind = "index" THEN IsDecimalLiteral(steps[k].text)
        ELSE IsName(steps[k].text)

\* the steps of a well-formed path applied to obj from left to right: the
\* object reached, or the first step that cannot be satisfied
RECURSIVE Walk(_, _)
Walk(obj, steps) ==
    IF steps = <<>> THEN [outcome |-> "reached", value |-> obj]
    ELSE LET step == Head(steps)
             n == DecimalValue(step.text)
         IN  IF step.kind = "attr" THEN
                 IF HasAttr(obj, step.text)
                 THEN Walk(AttrOf(obj, step.text), Tail(steps))
                 ELSE [outcome |-> "failed", why |-> "unknown attribute",
                       names |-> AttrPart(step.text)]
             ELSE IF ~obj.subscriptable
                 THEN [outcome |-> "failed", why |-> "not indexable",
                       names |-> NoPart]
             ELSE IF n >= Len(obj.items)
                 THEN [outcome |-> "failed", why |-> "index out of range",
                       names |-> IndexPart(n)]
             ELSE Walk(obj.items[n + 1], Tail(steps))

C20_OnlyIntegerLiteralAccepted ==
    (/\ resolved.outcome.outcome # "none"
     /\ \E k \in DOMAIN resolved.steps :
           /\ resolved.steps[k].kind = "index"
           /\ ~IsDecimalLiteral(resolved.steps[k].text))
    => (/\ resolved.outcome.outcome = "raised"
        /\ resolved.outcome.by \notin {"eval", "getitem"})

\* C12: right after a session has installed both probes and before its
\* generation starts, tokens_queue holds no batch of an earlier session.
C12_NoResidualAtCaptureStart ==
    [][\A r \in Requests :
          (~overlapped /\ pc[r] = "token_hooked" /\ pc'[r] = "awaiting")
          => tokens_queue' = <<>>]_vars

\* C13: a session that failed before its generation was submitted has left
\* no probe attached.
C13_FailedStartLeavesNoProbe ==
    \A r \in Requests :
        (pc[r] = "failed" /\ future[r] = "pending") =>
            (r \notin tokenHooks /\ r \notin routerHooks)

\* C14: when the completion marker of a session has been published, both
\* probes of the session have already been removed.
C14_ProbesRemovedBeforeMarker ==
    \A r \in Requests :
        Markers(r) # {} => (r \notin tokenHooks /\ r \notin routerHooks)

\* C15: a publish that fails does not stop the relay task.
C15_RelaySurvivesFailedPublish == relayPc # "dead"

\* C16: in a session that no other session overlaps, the forward step of the
\* compute thread can always go on, whatever the relay has taken from the
\* routing queue or published: the gate call after embed_tokens, and the
\* output-capture probe with its put after the gate call.
C16_ComputeThreadNeverWaitsForRelay ==
    (~overlapped /\ running # NoRequest) =>
        /\ phase = "embedded" => ENABLED (\E row \in GateRows : GateCall(row))
        /\ phase = "gate" => ENABLED RouterHook

\* C16: a generation has returned with two events on the routing queue and
\* nothing published yet.
C16_ReturnedWithRelayBehind ==
    /\ ~overlapped
    /\ Len(routing_queue) = 2
    /\ published = <<>>
    /\ \E r \in Requests : future[r] = "returned"

\* the text the probe stores for a token id whose decoding raised
Placeholder(t) == <<"[ERROR:", t, "]">>

\* C17: when decoding a token of the batch fails inside the output-capture
\* probe, the probe still puts its event; decoded_tokens is as long as
\* tokens, holds the placeholder at every position whose decoding failed
\* and decoded text at every other position.
C17_DecodeFailureKeepsEvent ==
    /\ phase # "gate" => Len(routing_queue) = 1
    /\ \A i \in DOMAIN routing_queue :
          LET data == routing_queue[i]
          IN  /\ Len(data.decoded_tokens) = Len(data.tokens)
              /\ \A k \in DOMAIN data.tokens :
                    IF data.tokens[k] \in UndecodableIds
                    THEN data.decoded_tokens[k] = Placeholder(data.tokens[k])
                    ELSE data.decoded_tokens[k] = <<"text", data.tokens[k]>>

\* C17: an event was put for a batch of three tokens whose second token
\* does not decode.
C17_MiddleTokenFailed ==
    /\ Len(routing_queue) = 1
    /\ Len(routing_queue[1].tokens) = 3
    /\ routing_queue[1].tokens[1] \notin UndecodableIds
    /\ routing_queue[1].tokens[2] \in UndecodableIds
    /\ routing_queue[1].tokens[3] \notin UndecodableIds

LowestIndexFirst(w, k) ==
    LET Before(a, b) == w[a] > w[b] \/ (w[a] = w[b] /\ a < b)
        Rank(a) == Cardinality({b \in DOMAIN w : Before(b, a)}) + 1
    IN  [p \in 1 .. k |-> (CHOOSE a \in DOMAIN w : Rank(a) = p) - 1]

\* C19: process_router_logits returns the k experts of highest weight in
\* descending order of weight, equal weights in ascending order of index.
C19_TiesLowestIndexFirst ==
    topk.top_k # 0 =>
        topk.selected_experts
            = LowestIndexFirst(Softmax(topk.router_logits), topk.top_k)

\* C21: in a single session, which starts with an empty tokens_queue and
\* whose forward steps each run the input-capture hook once and then the
\* output-capture hook once, tokens_queue never holds more than one batch
\* and is empty after every completed forward step.
C21_AtMostOnePendingBatch ==
    OnlyFirstSession =>
        /\ Len(tokens_queue) <= 1
        /\ (running # NoRequest /\ phase = "between") => tokens_queue = <<>>
        /\ future[1] = "returned" => tokens_queue = <<>>

\* C21: the single session has completed two forward steps and is still
\* generating.
C21_TwoStepsCompleted ==
    /\ OnlyFirstSession
    /\ running = 1
    /\ stepsDone = 2
    /\ phase = "between"

\* C22: the relay's routing_queue.get(), issued after the queue was seen
\* not empty, never waits, whatever the worker thread did in between.
C22_RelayGetNeverWaits == relayPc = "get" => ENABLED RelayBlockingGet

\* C22: the relay is about to get, and the worker thread, still generating,
\* has put a second event since the queue was seen not empty.
C22_PutBetweenTestAndGet ==
    /\ relayPc = "get"
    /\ Len(routing_queue) = 2
    /\ running # NoRequest


=============================================================================
